---- MODULE Spec2Model ----
(***************************************************************************)
(* cashtrack: a shop's cash book.  Staff record transactions, the model    *)
(* layer derives cash_in / cash_out from the transaction type, and the     *)
(* dashboard and the daily balance history aggregate the persisted rows.   *)
(*                                                                         *)
(* Money is counted in the smallest currency unit (0.01 PKR), so a         *)
(* DecimalField(decimal_places=2) is an integer here.  The amounts of the  *)
(* model stay far below max_digits=12 and below the form's 10 million      *)
(* sanity limit, so neither check is part of the model.                    *)
(***************************************************************************)
EXTENDS Integers, Sequences, FiniteSets, TLC

VARIABLES
    txns,      \* the transactions table: row i has primary key i
    bills,     \* the bills table: row i has primary key i
    now,       \* the clock, in ticks of UTC time
    last,      \* the last request and the response it got
    requests,  \* the mark-as-paid requests in flight, by worker
    shop       \* the shop settings table: primary key -> row

vars == <<txns, bills, now, last, requests, shop>>

(***************************************************************************)
(* Bounds of the model.                                                    *)
(***************************************************************************)
MaxAmount == 2        \* amounts submitted are -1 .. MaxAmount
MaxFee == 2           \* fees submitted are None or -1 .. MaxFee
MaxSaveTxns == 1      \* rows of the transactions table in SpecSave, SpecForm
MaxBookTxns == 3      \* rows of the transactions table in SpecBook
MaxNow == 5           \* the clock stops at this tick
MaxBills == 2         \* rows of the bills table
MaxBillNow == 2       \* the clock of SpecBills stops at this tick
DaysPerMonth == 2     \* the calendar of the model: days of a month
MaxWorkers == 2       \* requests served at the same time

(***************************************************************************)
(* Python's None for a nullable column or an absent form value.            *)
(***************************************************************************)
None == -1000

AmountInputs == -1 .. MaxAmount
FeeInputs == {None} \cup (-1 .. MaxFee)

(***************************************************************************)
(* transactions/models.py                                                  *)
(***************************************************************************)
TRANSACTION_TYPE_CHOICES ==
    { "MOBILE_WALLET_SEND", "MOBILE_WALLET_RECEIVE", "STATIONARY_SALE",
      "PRINT_COPY", "DEPOSIT", "CREDIT", "LOAD_PACKAGE", "OTHER",
      "JAZZCASH_SEND", "JAZZCASH_RECEIVE", "EASYPAISA_SEND",
      "EASYPAISA_RECEIVE", "CASH_CREDIT", "BILL_PAYMENT", "BANK_DEPOSIT",
      "BANK_WITHDRAWAL" }

\* MinValueValidator(Decimal('0.01')) of Transaction.amount, in units of 0.01
MinAmount == 1

\* MinValueValidator(Decimal('0.00')) of Transaction.fee
MinFee == 0

\* Python truthiness of a Decimal field value: None and 0 are falsy.
Truthy(x) == x # None /\ x # 0

\* A Transaction instance as Transaction(...) builds it: cash_in and cash_out
\* take their column default Decimal('0.00'), note is blank.  A note is
\* modelled by the customer id it names, None when it names none.
NewTransaction(ty, amount, fee) ==
    [ transaction_type |-> ty, amount |-> amount, fee |-> fee,
      cash_in |-> 0, cash_out |-> 0, created_at |-> None, note |-> None ]

\* Model.clean_fields: a blank or unknown choice, a null amount, and the
\* validators of the amount and fee columns.
clean_fields(t) ==
    (IF t.transaction_type \notin TRANSACTION_TYPE_CHOICES
       THEN {"transaction_type"} ELSE {})
    \cup (IF t.amount = None \/ t.amount < MinAmount THEN {"amount"} ELSE {})
    \cup (IF t.fee # None /\ t.fee < MinFee THEN {"fee"} ELSE {})

\* clean with BILL_PAYMENT left out of the types whose fee is capped.
clean_without_bill_payment(t) ==
    (IF t.amount # None /\ t.amount <= 0 THEN {"amount"} ELSE {})
    \cup (IF t.fee # None /\ t.fee < 0 THEN {"fee"} ELSE {})
    \cup (IF /\ Truthy(t.amount) /\ Truthy(t.fee)
             /\ t.transaction_type \in
                  {"MOBILE_WALLET_SEND", "MOBILE_WALLET_RECEIVE"}
             /\ t.fee > t.amount
          THEN {"fee"} ELSE {})

\* Transaction.clean: the keys of the errors dict it raises (empty: no error).
clean(t) ==
    (IF t.amount # None /\ t.amount <= 0 THEN {"amount"} ELSE {})
    \cup (IF t.fee # None /\ t.fee < 0 THEN {"fee"} ELSE {})
    \cup (IF /\ Truthy(t.amount) /\ Truthy(t.fee)
             /\ t.transaction_type \in
                  {"MOBILE_WALLET_SEND", "MOBILE_WALLET_RECEIVE", "BILL_PAYMENT"}
             /\ t.fee > t.amount
          THEN {"fee"} ELSE {})

\* Model.full_clean: field validators, then clean(); every error is collected.
full_clean(t) == clean_fields(t) \cup clean(t)

\* The branches of Transaction.save, applied to the instance s whose fee is
\* already defaulted.
cash_in_with_fee(s) == [s EXCEPT !.cash_in = s.amount + s.fee, !.cash_out = 0]

\* wallet_receive as the docstring of save describes it: the customer is
\* handed amount - fee.
wallet_receive_docstring(s) ==
    [s EXCEPT !.cash_out = s.amount - s.fee, !.cash_in = s.fee]

wallet_receive(s) == [s EXCEPT !.cash_out = s.amount, !.cash_in = s.fee]

cash_in_only(s) == [s EXCEPT !.cash_in = s.amount, !.cash_out = 0]

cash_out_only(s) == [s EXCEPT !.cash_out = s.amount, !.cash_in = 0]

other_fallback(s) ==
    IF s.cash_in = 0 /\ s.cash_out = 0 THEN [s EXCEPT !.cash_out = s.amount] ELSE s

\* Transaction.save up to the validation: the instance with fee defaulted and
\* cash_in / cash_out assigned by the branch of its transaction_type.
derive(t) ==
    LET ty == t.transaction_type
        s == [t EXCEPT !.fee = IF t.fee = None THEN 0 ELSE t.fee]
    IN  IF ty \in {"MOBILE_WALLET_SEND", "JAZZCASH_SEND", "EASYPAISA_SEND"}
          THEN cash_in_with_fee(s)
        ELSE IF ty \in {"MOBILE_WALLET_RECEIVE", "JAZZCASH_RECEIVE",
                        "EASYPAISA_RECEIVE"}
          THEN wallet_receive(s)
        ELSE IF ty = "STATIONARY_SALE" THEN cash_in_only(s)
        ELSE IF ty = "PRINT_COPY" THEN cash_in_only(s)
        ELSE IF ty = "DEPOSIT" THEN cash_in_only(s)
        ELSE IF ty = "CREDIT" THEN cash_out_only(s)
        ELSE IF ty = "LOAD_PACKAGE" THEN cash_in_only(s)
        ELSE IF ty = "CASH_CREDIT" THEN cash_out_only(s)
        ELSE IF ty = "BILL_PAYMENT" THEN cash_in_with_fee(s)
        ELSE IF ty = "BANK_DEPOSIT" THEN cash_out_only(s)
        ELSE IF ty = "BANK_WITHDRAWAL" THEN cash_in_only(s)
        ELSE other_fallback(s)

\* Transaction.save: [errors, row].  errors is the set of keys of the
\* ValidationError that full_clean raises on the derived instance; row is the
\* instance that super().save() writes when nothing was raised.
save(t) ==
    LET s == derive(t)
    IN  [ errors |-> full_clean(s), row |-> s ]

(***************************************************************************)
(* The application server runs requests on several workers at a time.  A   *)
(* worker that is not inside a mark-as-paid request is Idle.               *)
(***************************************************************************)
Workers == 1 .. MaxWorkers

Idle == [ pc |-> "idle" ]

(***************************************************************************)
(* The response of a request, as the claims observe it.                    *)
(***************************************************************************)
Response(op, pk, ty, amount, fee, errors) ==
    [ op |-> op, pk |-> pk, transaction_type |-> ty, amount |-> amount,
      fee |-> fee, errors |-> errors ]

Init ==
    /\ txns = << >>
    /\ bills = << >>
    /\ now = 0
    /\ last = Response("none", None, "none", None, None, {})
    /\ requests = [w \in Workers |-> Idle]
    /\ shop = << >>

\* Persist with the row written before the validation has its say.
Persist_before_validation(errors, written) == written

\* The table after a request that ends in Transaction.save: full_clean raises
\* before super().save(), so a row is written only when no error was raised.
Persist(errors, written) == IF errors = {} THEN written ELSE txns

\* INSERT of a saved instance: auto_now_add stamps created_at.
Insert(row) == Append(txns, [row EXCEPT !.created_at = now])

\* UPDATE of the row with primary key pk: created_at is not editable.
Update(pk, row) == [txns EXCEPT ![pk] = [row EXCEPT !.created_at = txns[pk].created_at]]

(***************************************************************************)
(* transactions/admin.py: the admin add and change pages.  The admin form  *)
(* offers every type of TRANSACTION_TYPE_CHOICES, shows cash_in/cash_out   *)
(* read-only, and saves through Transaction.save.                          *)
(***************************************************************************)
AdminAdd(ty, amount, fee) ==
    \E r \in {save(NewTransaction(ty, amount, fee))} :
        /\ txns' = Persist(r.errors, Insert(r.row))
        /\ last' = Response("admin_add", None, ty, amount, fee, r.errors)
        /\ UNCHANGED <<bills, now, requests, shop>>

AdminChange(pk, ty, amount, fee) ==
    LET obj == [txns[pk] EXCEPT !.transaction_type = ty, !.amount = amount,
                                !.fee = fee]
    IN  \E r \in {save(obj)} :
        /\ txns' = Persist(r.errors, Update(pk, r.row))
        /\ last' = Response("admin_change", pk, ty, amount, fee, r.errors)
        /\ UNCHANGED <<bills, now, requests, shop>>

(***************************************************************************)
(* transactions/forms.py and transactions/views.py: the create and update  *)
(* pages of the shop staff.                                                *)
(***************************************************************************)
user_facing_choices ==
    { "MOBILE_WALLET_SEND", "MOBILE_WALLET_RECEIVE", "STATIONARY_SALE",
      "PRINT_COPY", "DEPOSIT", "CREDIT", "LOAD_PACKAGE", "OTHER" }

\* The instance of a CreateView before the form fills it.
BlankTransaction == NewTransaction("", None, None)

\* TransactionForm.clean: the keys it adds, given the cleaned data (a field
\* that failed its own cleaning is absent: ty is "", amount and fee are 0).
TransactionFormClean(ty, amount, fee) ==
    IF ty = "" \/ amount = 0 THEN {}
    ELSE IF ty = "MOBILE_WALLET_SEND"
      THEN IF fee > amount THEN {"fee"}
           ELSE IF fee = 0 THEN {"fee"}
           ELSE {}
    ELSE IF ty = "BILL_PAYMENT"
      THEN IF fee = 0 THEN {"fee"} ELSE {}
    ELSE IF ty \in {"BANK_DEPOSIT", "BANK_WITHDRAWAL"}
      THEN IF fee > 0 THEN {"fee"} ELSE {}
    ELSE IF ty = "STATIONARY_SALE"
      THEN IF fee > amount THEN {"fee"} ELSE {}
    ELSE {}

\* TransactionForm.is_valid on the posted (ty, amount, fee), bound to
\* instance: [errors, instance].  Field cleaning (the choices of
\* transaction_type, the validators of amount and fee, clean_amount,
\* clean_fee), then clean(), then the ModelForm's _post_clean, which copies
\* the fields still in cleaned_data onto the instance and runs the model's
\* clean() on it.
TransactionForm(instance, ty, amount, fee) ==
    LET tyOk == ty \in user_facing_choices
        amountOk == amount # None /\ amount >= MinAmount
        feeOk == fee = None \/ fee >= MinFee
        clean_fee == IF fee = None THEN 0 ELSE fee
        field_errors ==
            (IF tyOk THEN {} ELSE {"transaction_type"})
            \cup (IF amountOk THEN {} ELSE {"amount"})
            \cup (IF feeOk THEN {} ELSE {"fee"})
        form_errors ==
            TransactionFormClean(IF tyOk THEN ty ELSE "",
                                 IF amountOk THEN amount ELSE 0,
                                 IF feeOk THEN clean_fee ELSE 0)
        feeKept == feeOk /\ form_errors = {}
        obj == [instance EXCEPT
                  !.transaction_type = IF tyOk THEN ty ELSE @,
                  !.amount = IF amountOk THEN amount ELSE @,
                  !.fee = IF feeKept THEN clean_fee ELSE @]
    IN  [ errors |-> field_errors \cup form_errors \cup clean(obj),
          instance |-> obj ]

\* TransactionCreateView.post: form_valid saves the instance, form_invalid
\* renders the errors and writes nothing.
TransactionCreateView(ty, amount, fee) ==
    \E form \in {TransactionForm(BlankTransaction, ty, amount, fee)} :
      \E r \in {save(form.instance)} :
        LET errors == IF form.errors # {} THEN form.errors ELSE r.errors
        IN  /\ txns' = Persist(errors, Insert(r.row))
            /\ last' = Response("create_view", None, ty, amount, fee, errors)
            /\ UNCHANGED <<bills, now, requests, shop>>

\* TransactionUpdateView.post on the row with primary key pk.
TransactionUpdateView(pk, ty, amount, fee) ==
    \E form \in {TransactionForm(txns[pk], ty, amount, fee)} :
      \E r \in {save(form.instance)} :
        LET errors == IF form.errors # {} THEN form.errors ELSE r.errors
        IN  /\ txns' = Persist(errors, Update(pk, r.row))
            /\ last' = Response("update_view", pk, ty, amount, fee, errors)
            /\ UNCHANGED <<bills, now, requests, shop>>

NextForm ==
    \/ /\ Len(txns) < MaxSaveTxns
       /\ \E ty \in TRANSACTION_TYPE_CHOICES, a \in AmountInputs, f \in FeeInputs :
            TransactionCreateView(ty, a, f)
    \/ \E pk \in DOMAIN txns :
         \E ty \in TRANSACTION_TYPE_CHOICES, a \in AmountInputs, f \in FeeInputs :
            TransactionUpdateView(pk, ty, a, f)

SpecForm == Init /\ [][NextForm]_vars

NextSave ==
    \/ /\ Len(txns) < MaxSaveTxns
       /\ \E ty \in TRANSACTION_TYPE_CHOICES, a \in AmountInputs, f \in FeeInputs :
            AdminAdd(ty, a, f)
    \/ \E pk \in DOMAIN txns :
         \E ty \in TRANSACTION_TYPE_CHOICES, a \in AmountInputs, f \in FeeInputs :
            AdminChange(pk, ty, a, f)

SpecSave == Init /\ [][NextSave]_vars

(***************************************************************************)
(* Time.  The views read the clock in the shop's time zone (Asia/Karachi,  *)
(* ahead of UTC).  A tick of the clock is the stretch between two          *)
(* consecutive midnights, UTC or local: tick 2d is the part of UTC day d   *)
(* before the local midnight, tick 2d+1 the part after it.  Both dates are *)
(* constant on a tick, and timestamps have microsecond resolution, so no   *)
(* instant lies between time.max of a day and time.min of the next.        *)
(***************************************************************************)
TicksPerDay == 2

\* timezone.localtime(t).date()
LocalDate(t) == (t + 1) \div TicksPerDay

\* timezone.make_aware(datetime.combine(d, time.min)): the first tick of local day d
DayStart(d) == d * TicksPerDay - 1

\* timezone.make_aware(datetime.combine(d, time.max)): the last tick of local day d
DayEnd(d) == d * TicksPerDay

\* timezone.now().date(): now() is an aware datetime in UTC (USE_TZ, which
\* timezone.localtime of the dashboard requires), and date() is its UTC date.
UtcDate(t) == t \div TicksPerDay

\* The clock advances.
Tick ==
    /\ now < MaxNow
    /\ now' = now + 1
    /\ UNCHANGED <<txns, bills, last, requests, shop>>

(***************************************************************************)
(* dashboard/views.py                                                      *)
(***************************************************************************)
RECURSIVE SumField(_, _)
SumField(S, f) ==
    IF S = {} THEN 0
    ELSE LET i == CHOOSE x \in S : TRUE
         IN  txns[i][f] + SumField(S \ {i}, f)

\* aggregate(Sum(f)) over the rows S: None over no rows.
Sum(S, f) == IF S = {} THEN None ELSE SumField(S, f)

\* Python's (x or 0)
OrZero(x) == IF x = None \/ x = 0 THEN 0 ELSE x

\* filter(created_at__lt=t)
created_at__lt(t) == { i \in DOMAIN txns : txns[i].created_at < t }

\* filter(created_at__range=(a, b))
created_at__range(a, b) ==
    { i \in DOMAIN txns : a <= txns[i].created_at /\ txns[i].created_at <= b }

\* total_cash_in_hand with the amounts subtracted in place of cash_out.
total_cash_in_hand_less_amounts ==
    OrZero(Sum(DOMAIN txns, "cash_in")) - OrZero(Sum(DOMAIN txns, "amount"))

\* DashboardView.get_context_data: context['total_cash_in_hand']
total_cash_in_hand ==
    OrZero(Sum(DOMAIN txns, "cash_in")) - OrZero(Sum(DOMAIN txns, "cash_out"))

\* DailyBalanceHistoryView: the default window is the last 30 days.
DefaultHistoryDays == 30

\* transactions_before with created_at__lte in place of created_at__lt.
transactions_before_lte(start_date) ==
    LET before == { i \in DOMAIN txns : txns[i].created_at <= DayStart(start_date) }
    IN  OrZero(Sum(before, "cash_in")) - OrZero(Sum(before, "cash_out"))

\* The opening balance: all transactions before start_date.
transactions_before(start_date) ==
    LET before == created_at__lt(DayStart(start_date))
    IN  OrZero(Sum(before, "cash_in")) - OrZero(Sum(before, "cash_out"))

\* One pass of the loop body for current_date: the day's entry.
day_entry(current_date, opening_balance) ==
    LET day == created_at__range(DayStart(current_date), DayEnd(current_date))
        cash_in == OrZero(Sum(day, "cash_in"))
        cash_out == OrZero(Sum(day, "cash_out"))
        net_change == cash_in - cash_out
    IN  [ date |-> current_date,
          opening_balance |-> opening_balance,
          cash_in |-> cash_in,
          cash_out |-> cash_out,
          fee |-> OrZero(Sum(day, "fee")),
          net_change |-> net_change,
          closing_balance |-> opening_balance + net_change,
          transaction_count |-> Cardinality(day),
          is_today |-> current_date = LocalDate(now) ]

\* Days whose balance moved, or today, are included.
included_when_balance_moved(entry) ==
    entry.net_change # 0 \/ entry.date = LocalDate(now)

\* Only days with transactions, or today, are included.
included(entry) == entry.transaction_count > 0 \/ entry.date = LocalDate(now)

\* The while loop from current_date to end_date: [daily_data, opening_balance].
RECURSIVE walk_days(_, _, _, _)
walk_days(current_date, end_date, opening_balance, daily_data) ==
    IF current_date <= end_date
      THEN LET entry == day_entry(current_date, opening_balance)
           IN  walk_days(current_date + 1, end_date, entry.closing_balance,
                         IF included(entry) THEN Append(daily_data, entry)
                         ELSE daily_data)
      ELSE [ daily_data |-> daily_data, opening_balance |-> opening_balance ]

\* list.reverse()
RECURSIVE reverse(_)
reverse(q) == IF q = << >> THEN << >> ELSE Append(reverse(Tail(q)), Head(q))

\* DailyBalanceHistoryView.get_context_data for the query parameters
\* start_date and end_date (None: not given).
DailyBalanceHistoryView(start_param, end_param) ==
    LET end_default == LocalDate(now)
        start_default == end_default - DefaultHistoryDays
        start_date == IF start_param # None THEN start_param ELSE start_default
        end_date == IF end_param # None THEN end_param ELSE end_default
        w == walk_days(start_date, end_date, transactions_before(start_date), << >>)
    IN  [ daily_data |-> reverse(w.daily_data),
          start_date |-> start_date,
          end_date |-> end_date,
          current_balance |-> w.opening_balance ]

(***************************************************************************)
(* The cash book over several days: the clock advances and bank movements  *)
(* and wallet withdrawals are recorded through the admin.                  *)
(***************************************************************************)
BookInputs ==
    { <<"BANK_DEPOSIT", 2, None>>, <<"BANK_DEPOSIT", 1, None>>,
      <<"BANK_WITHDRAWAL", 1, None>>, <<"MOBILE_WALLET_RECEIVE", 2, 1>> }

NextBook ==
    \/ Tick
    \/ /\ Len(txns) < MaxBookTxns
       /\ \E i \in BookInputs : AdminAdd(i[1], i[2], i[3])

SpecBook == Init /\ [][NextBook]_vars

(***************************************************************************)
(* bills/models.py, bills/forms.py, bills/views.py                         *)
(***************************************************************************)
\* MinValueValidator(Decimal('0.01')) of Bill.amount
MinBillAmount == 1

\* MinValueValidator(Decimal('0.00')) of Bill.fee
MinBillFee == 0

\* Bill.STATUS_CHOICES
STATUS_CHOICES == {"PENDING", "PAID", "OVERDUE"}

\* A Bill instance whose status defaults to another of the choices.
NewBill_default_overdue ==
    [ customer_id |-> None, amount |-> None, fee |-> None, due_date |-> None,
      status |-> "OVERDUE", transaction |-> None, paid_at |-> None,
      created_at |-> None ]

\* A Bill instance as BillCreateView builds it: status takes its default.
NewBill ==
    [ customer_id |-> None, amount |-> None, fee |-> None, due_date |-> None,
      status |-> "PENDING", transaction |-> None, paid_at |-> None,
      created_at |-> None ]

\* BillForm.is_valid on the posted (customer_id, amount, fee, due_date), bound
\* to instance: [errors, instance].  The form has no clean() of its own and
\* Bill has none either, so only the fields' own validators run.  The form
\* has no status, transaction or paid_at field.
BillForm(instance, customer_id, amount, fee, due_date) ==
    LET customerOk == customer_id # None
        amountOk == amount # None /\ amount >= MinBillAmount
        feeOk == fee = None \/ fee >= MinBillFee
        dueOk == due_date # None
    IN  [ errors |-> (IF customerOk THEN {} ELSE {"customer_id"})
                     \cup (IF amountOk THEN {} ELSE {"amount"})
                     \cup (IF feeOk THEN {} ELSE {"fee"})
                     \cup (IF dueOk THEN {} ELSE {"due_date"}),
          instance |-> [instance EXCEPT
                          !.customer_id = IF customerOk THEN customer_id ELSE @,
                          !.amount = IF amountOk THEN amount ELSE @,
                          !.fee = IF feeOk THEN fee ELSE @,
                          !.due_date = IF dueOk THEN due_date ELSE @] ]

\* Transaction.objects.create(transaction_type=BILL_PAYMENT, amount=bill.amount,
\* fee=bill.fee, note=f"Bill payment for customer {bill.customer_id}", ...):
\* the save of the new instance.
bill_payment(bill) ==
    save([NewTransaction("BILL_PAYMENT", bill.amount, bill.fee)
            EXCEPT !.note = bill.customer_id])

\* What an exception leaving the atomic block writes nothing of.
rollback_nothing(prior, written) == written

\* @db_transaction.atomic on the bill views: when an exception leaves the
\* view, the table is what it was before the request (prior), whatever the
\* request had written by then (written).
rollback(prior, written) == prior

\* The check of BillMarkAsPaidView left out.
already_paid_unchecked(bill) == FALSE

\* if bill.status == Bill.PAID
already_paid(bill) == bill.status = "PAID"

\* mark_as_paid with the time of payment left unset.
mark_as_paid_without_paid_at(bill, transaction) ==
    [bill EXCEPT !.status = "PAID", !.transaction = transaction]

\* Bill.mark_as_paid
mark_as_paid(bill, transaction) ==
    [bill EXCEPT !.status = "PAID", !.transaction = transaction, !.paid_at = now]

\* The response of a bill request.  outcome is "invalid" (the form was shown
\* again with errors), "error" (an exception left the view and the atomic
\* block rolled back), "already_paid", "created", "updated" or "paid";
\* status is the bill's status as the view read it, created the number of
\* transactions the request committed.
BillResponse(op, pk, amount, fee, due_date, status, outcome, errors, created) ==
    [ op |-> op, pk |-> pk, amount |-> amount, fee |-> fee,
      due_date |-> due_date, status |-> status, outcome |-> outcome,
      errors |-> errors, created |-> created ]

\* BillCreateView.post: form_valid saves the bill, creates the BILL_PAYMENT
\* transaction and links it, the bill staying PENDING; all in one atomic block.
BillCreateView(customer_id, amount, fee, due_date) ==
    \E form \in {BillForm(NewBill, customer_id, amount, fee, due_date)} :
      \E r \in {bill_payment(form.instance)} :
        LET pk == Len(bills) + 1
            saved == [form.instance EXCEPT !.created_at = now]
        IN  /\ UNCHANGED <<now, requests, shop>>
            /\ IF form.errors # {}
                 THEN /\ UNCHANGED <<txns, bills>>
                      /\ last' = BillResponse("bill_create", None, amount, fee,
                                   due_date, None, "invalid", form.errors, 0)
               ELSE IF r.errors # {}
                 THEN /\ txns' = rollback(txns, txns)
                      /\ bills' = rollback(bills, Append(bills, saved))
                      /\ last' = BillResponse("bill_create", None, amount, fee,
                                   due_date, None, "error", r.errors, 0)
               ELSE /\ txns' = Insert(r.row)
                    /\ bills' = Append(bills,
                          [saved EXCEPT !.transaction = Len(txns) + 1])
                    /\ last' = BillResponse("bill_create", pk, amount, fee,
                                   due_date, "PENDING", "created", {}, 1)

\* BillUpdateView.post on the bill with primary key pk.
BillUpdateView(pk, customer_id, amount, fee, due_date) ==
    \E form \in {BillForm(bills[pk], customer_id, amount, fee, due_date)} :
        /\ UNCHANGED <<txns, now, requests, shop>>
        /\ IF form.errors # {}
             THEN /\ UNCHANGED bills
                  /\ last' = BillResponse("bill_update", pk, amount, fee, due_date,
                               bills[pk].status, "invalid", form.errors, 0)
           ELSE /\ bills' = [bills EXCEPT ![pk] = form.instance]
                /\ last' = BillResponse("bill_update", pk, amount, fee, due_date,
                               bills[pk].status, "updated", {}, 0)

\* BillMarkAsPaidView.post on the bill with primary key pk.
BillMarkAsPaidView(pk) ==
    \E r \in {bill_payment(bills[pk])} :
      LET bill == bills[pk]
      IN  /\ UNCHANGED <<now, requests, shop>>
          /\ IF already_paid(bill)
               THEN /\ UNCHANGED <<txns, bills>>
                    /\ last' = BillResponse("mark_as_paid", pk, bill.amount,
                                 bill.fee, bill.due_date, bill.status,
                                 "already_paid", {}, 0)
             ELSE IF r.errors # {}
               THEN /\ txns' = rollback(txns, txns)
                    /\ bills' = rollback(bills, bills)
                    /\ last' = BillResponse("mark_as_paid", pk, bill.amount,
                                 bill.fee, bill.due_date, bill.status,
                                 "error", r.errors, 0)
             ELSE /\ txns' = Insert(r.row)
                  /\ bills' = [bills EXCEPT ![pk] = mark_as_paid(bill, Len(txns) + 1)]
                  /\ last' = BillResponse("mark_as_paid", pk, bill.amount,
                                 bill.fee, bill.due_date, bill.status,
                                 "paid", {}, 1)

\* Bill.Meta.ordering = ['due_date', '-created_at'], the order in which a
\* queryset of bills is iterated: the sequences of the bills of S in that
\* order.  Bills equal on both keys come in the order the database returns.
ordering(S) ==
    { q \in [1 .. Cardinality(S) -> S] :
        /\ \A i, j \in DOMAIN q : i # j => q[i] # q[j]
        /\ \A i, j \in DOMAIN q :
             i < j => \/ bills[q[i]].due_date < bills[q[j]].due_date
                      \/ /\ bills[q[i]].due_date = bills[q[j]].due_date
                         /\ bills[q[i]].created_at >= bills[q[j]].created_at }

\* The response of a bulk request: bill_ids as posted, the outcome
\* ("none_selected", "none_pending", "error" or "paid"), the count the
\* success message reports and the number of transactions committed.
BulkResponse(bill_ids, outcome, errors, count, created) ==
    [ op |-> "bulk_mark_as_paid", bill_ids |-> bill_ids, outcome |-> outcome,
      errors |-> errors, count |-> count, created |-> created ]

\* The for loop of BillBulkMarkAsPaidView.post from position k of the
\* queryset q, with the tables and the count as the loop has left them; a
\* ValidationError out of Transaction.objects.create ends the loop.
RECURSIVE bulk_loop(_, _, _, _, _)
bulk_loop(q, k, txs, bls, count) ==
    IF k > Len(q)
      THEN [ errors |-> {}, txns |-> txs, bills |-> bls, count |-> count ]
    ELSE LET bill == bls[q[k]]
             r == bill_payment(bill)
         IN  IF r.errors # {}
               THEN [ errors |-> r.errors, txns |-> txs, bills |-> bls,
                      count |-> count ]
             ELSE bulk_loop(q, k + 1,
                            Append(txs, [r.row EXCEPT !.created_at = now]),
                            [bls EXCEPT ![q[k]] = mark_as_paid(bill, Len(txs) + 1)],
                            count + 1)

\* BillBulkMarkAsPaidView.post with the posted bill_ids.  The whole request
\* is one atomic block: an exception out of the loop rolls back every write
\* of the request.
BillBulkMarkAsPaidView(bill_ids) ==
    LET pending == { pk \in bill_ids \cap DOMAIN bills :
                        bills[pk].status = "PENDING" }
    IN  /\ UNCHANGED <<now, requests, shop>>
        /\ IF bill_ids = {}
             THEN /\ UNCHANGED <<txns, bills>>
                  /\ last' = BulkResponse(bill_ids, "none_selected", {}, 0, 0)
           ELSE IF pending = {}
             THEN /\ UNCHANGED <<txns, bills>>
                  /\ last' = BulkResponse(bill_ids, "none_pending", {}, 0, 0)
           ELSE \E q \in ordering(pending) :
                  \E r \in {bulk_loop(q, 1, txns, bills, 0)} :
                    IF r.errors # {}
                      THEN /\ txns' = rollback(txns, r.txns)
                           /\ bills' = rollback(bills, r.bills)
                           /\ last' = BulkResponse(bill_ids, "error", r.errors, 0, 0)
                    ELSE /\ txns' = r.txns
                         /\ bills' = r.bills
                         /\ last' = BulkResponse(bill_ids, "paid", {}, r.count,
                                                 Len(r.txns) - Len(txns))

\* The (amount, fee) posted on the bill forms: an amount the form rejects, a
\* bill without fee, a fee below the amount and a fee above it.
BillInputs == { <<0, None>>, <<1, None>>, <<2, 1>>, <<1, 2>> }

\* The due dates posted on the bill forms.  Every bill is created for a
\* customer of its own, and an update posts the customer id unchanged.
DueDates == {1}

NextBills ==
    \/ now < MaxBillNow /\ Tick
    \/ /\ Len(bills) < MaxBills
       /\ \E i \in BillInputs, d \in DueDates :
            BillCreateView(Len(bills) + 1, i[1], i[2], d)
    \/ \E pk \in DOMAIN bills :
         \E i \in BillInputs, d \in DueDates :
            BillUpdateView(pk, bills[pk].customer_id, i[1], i[2], d)
    \/ \E pk \in DOMAIN bills : BillMarkAsPaidView(pk)
    \/ \E bill_ids \in SUBSET (1 .. MaxBills) : BillBulkMarkAsPaidView(bill_ids)

SpecBills == Init /\ [][NextBills]_vars

\* Bill.is_overdue
is_overdue(bill) ==
    IF bill.status = "PAID" THEN FALSE ELSE UtcDate(now) > bill.due_date

\* BillListView.get_context_data: context['overdue_bills'], the count of
\* all_bills.filter(status=PENDING, due_date__lt=timezone.now().date())
overdue_bills ==
    Cardinality({ pk \in DOMAIN bills : /\ bills[pk].status = "PENDING"
                                        /\ bills[pk].due_date < UtcDate(now) })

\* BillListView.get_context_data: context['overdue_bills_list'], the pending
\* bills with bill.due_date < today, as the set of their primary keys.
overdue_bills_list ==
    LET today == UtcDate(now)
        pending_bills == { pk \in DOMAIN bills : bills[pk].status = "PENDING" }
    IN  { pk \in pending_bills : bills[pk].due_date < today }

\* The due dates of the bills of the bill list: yesterday, today and
\* tomorrow of the first local day.
ListDueDates == {0, 1, 2}

\* Bills of several due dates are created and paid while the clock advances;
\* the bill list is read in every state.
NextList ==
    \/ now < MaxBillNow /\ Tick
    \/ /\ Len(bills) < MaxBills
       /\ \E d \in ListDueDates : BillCreateView(Len(bills) + 1, 1, None, d)
    \/ \E pk \in DOMAIN bills : BillMarkAsPaidView(pk)

SpecList == Init /\ [][NextList]_vars

(***************************************************************************)
(* bills/views.py under concurrent requests.  Each mark-as-paid view is    *)
(* one database transaction (atomic): what it writes is seen by the other  *)
(* workers when it commits, at the end of the view.  The views read the    *)
(* bill with get_object_or_404 / filter, without select_for_update, so a   *)
(* worker holds the instances as it read them.  Where the database lets    *)
(* one transaction write at a time, a worker that writes while another     *)
(* holds uncommitted writes may instead get OperationalError.              *)
(***************************************************************************)
\* A finished request: the bills it was sent for, its outcome, and the bills
\* it moved to PAID with a transaction it committed.
Done(kind, bill_ids, outcome, errors, paid) ==
    [ pc |-> "done", kind |-> kind, bill_ids |-> bill_ids, outcome |-> outcome,
      errors |-> errors, paid |-> paid ]

\* Another worker has written and not yet committed.
write_in_progress(w) ==
    \E other \in Workers \ {w} : requests[other].pc = "created"

\* BillMarkAsPaidView.post, first step: get_object_or_404 and the status check.
MarkAsPaidRead(w, pk) ==
    /\ requests[w].pc = "idle"
    /\ requests' = [requests EXCEPT ![w] =
          IF already_paid(bills[pk])
            THEN Done("single", {pk}, "already_paid", {}, {})
          ELSE [ pc |-> "read", pk |-> pk, bill |-> bills[pk] ]]
    /\ UNCHANGED <<txns, bills, now, last, shop>>

\* BillMarkAsPaidView.post, second step: Transaction.objects.create from the
\* bill as read.  A ValidationError, or the database refusing the write,
\* leaves the view and rolls the request back.
MarkAsPaidCreate(w) ==
    /\ requests[w].pc = "read"
    /\ \E r \in {bill_payment(requests[w].bill)} :
         \/ requests' = [requests EXCEPT ![w] =
               IF r.errors # {}
                 THEN Done("single", {requests[w].pk}, "error", r.errors, {})
               ELSE [ pc |-> "created", pk |-> requests[w].pk,
                      bill |-> requests[w].bill, txn |-> r.row ]]
         \/ /\ write_in_progress(w)
            /\ requests' = [requests EXCEPT ![w] =
                  Done("single", {requests[w].pk}, "error", {"database"}, {})]
    /\ UNCHANGED <<txns, bills, now, last, shop>>

\* BillMarkAsPaidView.post, last step: bill.mark_as_paid(txn) saves the
\* instance as read with its three fields set, and the view commits.
MarkAsPaidSave(w) ==
    /\ requests[w].pc = "created"
    /\ txns' = Insert(requests[w].txn)
    /\ bills' = [bills EXCEPT ![requests[w].pk] =
                    mark_as_paid(requests[w].bill, Len(txns) + 1)]
    /\ requests' = [requests EXCEPT ![w] =
          Done("single", {requests[w].pk}, "paid", {}, {requests[w].pk})]
    /\ UNCHANGED <<now, last, shop>>

\* BillBulkMarkAsPaidView.post, first step: the queryset of the pending
\* bills of the selection is read.
BulkRead(w, bill_ids) ==
    LET pending == { pk \in bill_ids \cap DOMAIN bills :
                        bills[pk].status = "PENDING" }
    IN  /\ requests[w].pc = "idle"
        /\ IF bill_ids = {}
             THEN requests' = [requests EXCEPT ![w] =
                     Done("bulk", bill_ids, "none_selected", {}, {})]
           ELSE IF pending = {}
             THEN requests' = [requests EXCEPT ![w] =
                     Done("bulk", bill_ids, "none_pending", {}, {})]
           ELSE \E q \in ordering(pending) :
                  requests' = [requests EXCEPT ![w] =
                     [ pc |-> "bulk_read", bill_ids |-> bill_ids, q |-> q,
                       bills |-> bills ]]
        /\ UNCHANGED <<txns, bills, now, last, shop>>

\* BillBulkMarkAsPaidView.post, the loop over the bills as read and the
\* commit: only the bills of the queryset are saved.
BulkCommit(w) ==
    /\ requests[w].pc = "bulk_read"
    /\ LET q == requests[w].q
           saved == { q[k] : k \in DOMAIN q }
       IN  \E r \in {bulk_loop(q, 1, txns, requests[w].bills, 0)} :
             IF r.errors # {}
               THEN /\ txns' = rollback(txns, r.txns)
                    /\ bills' = rollback(bills, bills)
                    /\ requests' = [requests EXCEPT ![w] =
                          Done("bulk", requests[w].bill_ids, "error", r.errors, {})]
             ELSE /\ txns' = r.txns
                  /\ bills' = [pk \in DOMAIN bills |->
                                 IF pk \in saved THEN r.bills[pk] ELSE bills[pk]]
                  /\ requests' = [requests EXCEPT ![w] =
                        Done("bulk", requests[w].bill_ids, "paid", {}, saved)]
    /\ UNCHANGED <<now, last, shop>>

\* The bills of the concurrent runs: without and with a fee.
RaceInputs == { <<1, None>>, <<2, 1>> }

\* Bills are created, and the workers serve one mark-as-paid request each,
\* single or bulk, in any interleaving.
NextRace ==
    \/ /\ Len(bills) < MaxBills
       /\ \E i \in RaceInputs, d \in DueDates :
            BillCreateView(Len(bills) + 1, i[1], i[2], d)
    \/ \E w \in Workers, pk \in DOMAIN bills : MarkAsPaidRead(w, pk)
    \/ \E w \in Workers : MarkAsPaidCreate(w)
    \/ \E w \in Workers : MarkAsPaidSave(w)
    \/ \E w \in Workers, bill_ids \in SUBSET (1 .. MaxBills) : BulkRead(w, bill_ids)
    \/ \E w \in Workers : BulkCommit(w)

SpecRace == Init /\ [][NextRace]_vars

(***************************************************************************)
(* shop_settings/models.py                                                 *)
(***************************************************************************)
\* default=Decimal('5.00') of print_bw_cost and print_color_cost
DefaultPrintCost == 500

\* A ShopSettings instance: ShopSettings(pk=pk, print_bw_cost=..., ...).
NewShopSettings(pk, print_bw_cost, print_color_cost) ==
    [ pk |-> pk, print_bw_cost |-> print_bw_cost,
      print_color_cost |-> print_color_cost, updated_at |-> None ]

\* Model.save of an instance obj on the table: UPDATE of the row with the
\* instance's primary key when there is one, INSERT otherwise, under the
\* next key when the instance has none; auto_now stamps updated_at.
Model_save(obj) ==
    LET next == IF DOMAIN shop = {} THEN 1
                ELSE 1 + CHOOSE m \in DOMAIN shop : \A k \in DOMAIN shop : k <= m
        pk == IF obj.pk = None THEN next ELSE obj.pk
        row == [obj EXCEPT !.pk = pk, !.updated_at = now]
    IN  [ k \in DOMAIN shop \cup {pk} |-> IF k = pk THEN row ELSE shop[k] ]

\* save without the singleton's self.pk = 1
ShopSettings_save_keeps_pk(obj) == Model_save(obj)

\* ShopSettings.save: self.pk = 1, then super().save()
ShopSettings_save(obj) == Model_save([obj EXCEPT !.pk = 1])

\* ShopSettings.save() called on an instance with the given pk (None for a
\* new one) and costs.
ShopSave(pk, print_bw_cost, print_color_cost) ==
    /\ shop' = ShopSettings_save(NewShopSettings(pk, print_bw_cost,
                                                 print_color_cost))
    /\ last' = [ op |-> "shop_save", pk |-> pk, print_bw_cost |-> print_bw_cost,
                 print_color_cost |-> print_color_cost ]
    /\ UNCHANGED <<txns, bills, now, requests>>

\* ShopSettings.get_settings: objects.get_or_create(pk=1), which saves an
\* instance of default costs when no row has the key.
get_settings ==
    LET created == 1 \notin DOMAIN shop
    IN  \E table \in {IF created
                        THEN ShopSettings_save(NewShopSettings(1, DefaultPrintCost,
                                                               DefaultPrintCost))
                      ELSE shop} :
          /\ shop' = table
          /\ last' = [ op |-> "get_settings", obj |-> table[1],
                       created |-> created ]
          /\ UNCHANGED <<txns, bills, now, requests>>

\* The keys of the instances saved (None: a new instance) and the costs set.
ShopKeys == {None, 1, 2}

CostInputs == {0, 300, 500}

NextShop ==
    \/ now < MaxBillNow /\ Tick
    \/ \E pk \in ShopKeys, bw \in CostInputs, color \in CostInputs :
         ShopSave(pk, bw, color)
    \/ get_settings

SpecShop == Init /\ [][NextShop]_vars

(***************************************************************************)
(* analytics/views.py                                                      *)
(***************************************************************************)
\* AnalyticsView.get_context_data: the transaction type groups
transaction_types ==
    [ mobile_wallet_send |-> {"MOBILE_WALLET_SEND", "JAZZCASH_SEND",
                              "EASYPAISA_SEND"},
      mobile_wallet_receive |-> {"MOBILE_WALLET_RECEIVE", "JAZZCASH_RECEIVE",
                                 "EASYPAISA_RECEIVE"},
      print_copy |-> {"PRINT_COPY"},
      stationary |-> {"STATIONARY_SALE"},
      deposit |-> {"DEPOSIT"},
      credit |-> {"CREDIT"},
      load_package |-> {"LOAD_PACKAGE"},
      bill_payment |-> {"BILL_PAYMENT"} ]

\* today.replace(day=1), in a calendar whose months begin on day 0
month_start(today) == today - (today % DaysPerMonth)

\* The periods of the analytics page.
periods == {"today", "yesterday", "monthly", "all_time"}

\* The date filter of a period on the rows: created_at__date is the local
\* date of created_at.
period_filter(period_name) ==
    LET today == LocalDate(now)
        yesterday == today - 1
        date(i) == LocalDate(txns[i].created_at)
    IN  IF period_name = "today"
          THEN { i \in DOMAIN txns : date(i) = today }
        ELSE IF period_name = "yesterday"
          THEN { i \in DOMAIN txns : date(i) = yesterday }
        ELSE IF period_name = "monthly"
          THEN { i \in DOMAIN txns :
                    month_start(today) <= date(i) /\ date(i) <= today }
        ELSE DOMAIN txns

\* The fees of the rows S whose fee is truthy, summed.
RECURSIVE total_profit(_)
total_profit(S) ==
    IF S = {} THEN 0
    ELSE LET i == CHOOSE x \in S : TRUE
         IN  (IF Truthy(txns[i].fee) THEN txns[i].fee ELSE 0)
             + total_profit(S \ {i})

\* analytics_data[period_name][type_name]
analytics(period_name, type_name) ==
    LET qs == { i \in period_filter(period_name) :
                  txns[i].transaction_type \in transaction_types[type_name] }
    IN  [ cash |-> SumField(qs, "cash_in") - SumField(qs, "cash_out"),
          profit |-> total_profit(qs),
          count |-> Cardinality(qs) ]

\* sum(item[key] for item in period_data.values()) over the groups G
RECURSIVE sum_items(_, _, _)
sum_items(period_name, G, key) ==
    IF G = {} THEN 0
    ELSE LET g == CHOOSE x \in G : TRUE
         IN  analytics(period_name, g)[key]
             + sum_items(period_name, G \ {g}, key)

\* period_totals[period_name]
period_totals(period_name) ==
    [ cash |-> sum_items(period_name, DOMAIN transaction_types, "cash"),
      profit |-> sum_items(period_name, DOMAIN transaction_types, "profit"),
      count |-> sum_items(period_name, DOMAIN transaction_types, "count") ]

\* The transactions recorded for the analytics page: a type of no group, a
\* sale, a legacy wallet alias with its fee, and a bank transfer.
AnalyticsInputs ==
    { <<"OTHER", 1, None>>, <<"STATIONARY_SALE", 1, None>>,
      <<"JAZZCASH_SEND", 2, 1>>, <<"BANK_DEPOSIT", 1, None>> }

\* Transactions are recorded while the clock advances; the analytics page
\* is read in every state.
NextAnalytics ==
    \/ Tick
    \/ /\ Len(txns) < MaxBookTxns
       /\ \E i \in AnalyticsInputs : AdminAdd(i[1], i[2], i[3])

SpecAnalytics == Init /\ [][NextAnalytics]_vars

Next ==
    \/ NextSave \/ NextForm \/ NextBook \/ NextBills \/ NextList
    \/ NextAnalytics \/ NextRace \/ NextShop

Spec == Init /\ [][Next]_vars

(***************************************************************************)
(* The rule table of the classification engine, as documented.             *)
(***************************************************************************)
RuleTableTypes ==
    { "MOBILE_WALLET_SEND", "MOBILE_WALLET_RECEIVE", "STATIONARY_SALE",
      "PRINT_COPY", "DEPOSIT", "CREDIT", "LOAD_PACKAGE", "BILL_PAYMENT",
      "BANK_DEPOSIT", "BANK_WITHDRAWAL", "OTHER" }

RuleTable(ty, amount, fee) ==
    CASE ty \in {"MOBILE_WALLET_SEND", "BILL_PAYMENT"} -> <<amount + fee, 0>>
      [] ty = "MOBILE_WALLET_RECEIVE" -> <<fee, amount>>
      [] ty \in {"STATIONARY_SALE", "PRINT_COPY", "DEPOSIT", "LOAD_PACKAGE",
                 "BANK_WITHDRAWAL"} -> <<amount, 0>>
      [] ty \in {"CREDIT", "BANK_DEPOSIT"} -> <<0, amount>>
      [] ty = "OTHER" -> <<0, amount>>

FeeCappedTypes == {"MOBILE_WALLET_SEND", "MOBILE_WALLET_RECEIVE", "BILL_PAYMENT"}

ReceiveFamily == {"MOBILE_WALLET_RECEIVE", "JAZZCASH_RECEIVE", "EASYPAISA_RECEIVE"}

FeeOrZero(fee) == IF fee = None THEN 0 ELSE fee

\* The posted (type, amount, fee) of the last request is a valid input.
ValidInput ==
    /\ last.amount > 0
    /\ last.fee = None \/ last.fee >= 0
    /\ last.transaction_type \in FeeCappedTypes => FeeOrZero(last.fee) <= last.amount

SaveOps == {"admin_add", "admin_change"}

C2_NeverStale ==
    \A i \in DOMAIN txns :
        txns[i].transaction_type \in RuleTableTypes
        => <<txns[i].cash_in, txns[i].cash_out>> =
              RuleTable(txns[i].transaction_type, txns[i].amount, txns[i].fee)

(***************************************************************************)
(* C3.  As claimed: a save fails with an error keyed on 'amount' when      *)
(* amount <= 0, keyed on 'fee' when fee < 0, keyed on 'fee' when the type  *)
(* caps the fee and fee > amount; every other save succeeds.               *)
(***************************************************************************)
C3_AsClaimed ==
    last.op \in SaveOps
    => /\ last.amount <= 0 => "amount" \in last.errors
       /\ (last.fee # None /\ last.fee < 0) => "fee" \in last.errors
       /\ ( /\ last.transaction_type \in FeeCappedTypes
            /\ last.fee # None /\ last.fee > last.amount )
          => "fee" \in last.errors
       /\ ValidInput => last.errors = {}

(***************************************************************************)
(* C3, amended.  A save fails exactly when amount <= 0, fee < 0, or the    *)
(* type caps the fee and fee > amount; the error is keyed on 'amount' when *)
(* amount <= 0, on 'fee' when fee < 0, and on 'fee' when the type caps the *)
(* fee and fee > amount > 0.                                               *)
(***************************************************************************)
C3_SaveFailsExactlyWhenInvalid ==
    last.op \in SaveOps
    => /\ last.amount <= 0 => "amount" \in last.errors
       /\ (last.fee # None /\ last.fee < 0) => "fee" \in last.errors
       /\ ( /\ last.transaction_type \in FeeCappedTypes
            /\ last.fee # None /\ last.fee > last.amount
            /\ last.amount > 0 )
          => "fee" \in last.errors
       /\ ValidInput <=> last.errors = {}

\* Scenario 5 in small: MOBILE_WALLET_SEND with fee 2 > amount 1.
C3_Witness ==
    /\ last.op = "admin_add"
    /\ last.transaction_type = "MOBILE_WALLET_SEND"
    /\ last.amount = 1 /\ last.fee = 2
    /\ last.errors = {"fee"}

(***************************************************************************)
(* C4.  A save that fails validation leaves the transactions table as it   *)
(* was: no row is added and no stored row changes.                         *)
(***************************************************************************)
C4_FailedSaveWritesNothing ==
    [][ (last'.op \in SaveOps /\ last'.errors # {}) => txns' = txns ]_vars

\* A failed update of an existing row.
C4_Witness ==
    /\ last.op = "admin_change"
    /\ last.errors # {}
    /\ Len(txns) = 1
    /\ last.transaction_type # txns[1].transaction_type

(***************************************************************************)
(* C5.  Every persisted transaction has cash_in >= 0 and cash_out >= 0.    *)
(***************************************************************************)
C5_CashNonNegative ==
    \A i \in DOMAIN txns : txns[i].cash_in >= 0 /\ txns[i].cash_out >= 0

\* A legacy receive, whose fee the validation does not cap, was saved.
C5_Witness ==
    \E i \in DOMAIN txns :
        /\ txns[i].transaction_type = "JAZZCASH_RECEIVE"
        /\ txns[i].fee > txns[i].amount

(***************************************************************************)
(* C6.  Every persisted transaction whose type is not of the receive       *)
(* family has exactly one of cash_in and cash_out nonzero.                 *)
(***************************************************************************)
C6_ExactlyOneNonzero ==
    \A i \in DOMAIN txns :
        txns[i].transaction_type \notin ReceiveFamily
        => (txns[i].cash_in # 0) # (txns[i].cash_out # 0)

(***************************************************************************)
(* The net effect of transactions on the till, summed row by row.          *)
(***************************************************************************)
RECURSIVE NetOf(_)
NetOf(S) ==
    IF S = {} THEN 0
    ELSE LET i == CHOOSE x \in S : TRUE
         IN  (txns[i].cash_in - txns[i].cash_out) + NetOf(S \ {i})

\* The rows whose local date is before d, on d, on or before d.
RowsBefore(d) == { i \in DOMAIN txns : LocalDate(txns[i].created_at) < d }

RowsOn(d) == { i \in DOMAIN txns : LocalDate(txns[i].created_at) = d }

RowsUpTo(d) == { i \in DOMAIN txns : LocalDate(txns[i].created_at) <= d }

\* The query parameters tried: not given, or a date from before the first
\* day of the clock to after its last.
QueryDates == {None} \cup (-1 .. LocalDate(MaxNow) + 1)

(***************************************************************************)
(* C7.  The dashboard's total_cash_in_hand is the sum over all persisted   *)
(* transactions of cash_in - cash_out, and recording one more transaction  *)
(* changes it by exactly that transaction's cash_in - cash_out.            *)
(***************************************************************************)
C7_TillBalance ==
    /\ [](total_cash_in_hand = NetOf(DOMAIN txns))
    /\ [][ Len(txns') = Len(txns) + 1
           => total_cash_in_hand' - total_cash_in_hand
                = txns'[Len(txns')].cash_in - txns'[Len(txns')].cash_out ]_vars

\* Scenario 4 in small: BANK_DEPOSIT 2 then BANK_WITHDRAWAL 1 -> -1.
C7_Witness ==
    /\ Len(txns) = 2
    /\ txns[1].transaction_type = "BANK_DEPOSIT" /\ txns[1].amount = 2
    /\ txns[2].transaction_type = "BANK_WITHDRAWAL" /\ txns[2].amount = 1
    /\ total_cash_in_hand = -1

(***************************************************************************)
(* C8.  For any start and end, the rollup's current_balance, and the       *)
(* closing balance of its chronologically last emitted day, equal the net  *)
(* of all transactions whose local date is on or before end.               *)
(***************************************************************************)
C8_FinalClosingIsNetUpToEnd ==
    \A s \in QueryDates, e \in QueryDates :
        LET r == DailyBalanceHistoryView(s, e)
        IN  /\ r.current_balance = NetOf(RowsUpTo(r.end_date))
            /\ r.daily_data # << >>
               => r.daily_data[1].closing_balance = NetOf(RowsUpTo(r.end_date))

(***************************************************************************)
(* C9.  In the rollup, the opening balance of the first emitted day is the *)
(* net of all transactions before start, the opening balance of every      *)
(* later emitted day is the closing balance of the emitted day before it,  *)
(* and each day's closing balance is its opening balance plus that day's   *)
(* cash_in minus cash_out.                                                 *)
(***************************************************************************)
C9_BalancesCarry ==
    \A s \in QueryDates, e \in QueryDates :
        LET r == DailyBalanceHistoryView(s, e)
            n == Len(r.daily_data)
            \* daily_data is most recent first: day(k) is the k-th in time
            day(k) == r.daily_data[n + 1 - k]
        IN  /\ n > 0 => day(1).opening_balance = NetOf(RowsBefore(r.start_date))
            /\ \A k \in 1 .. n - 1 :
                 /\ day(k).date < day(k + 1).date
                 /\ day(k + 1).opening_balance = day(k).closing_balance
            /\ \A k \in 1 .. n :
                 /\ day(k).closing_balance =
                      day(k).opening_balance + day(k).cash_in - day(k).cash_out
                 /\ day(k).cash_in - day(k).cash_out = NetOf(RowsOn(day(k).date))

\* Two emitted days with an omitted empty day between them, the first one
\* opening on a nonzero balance carried from before start.
C9_Witness ==
    \E s \in QueryDates, e \in QueryDates :
        LET r == DailyBalanceHistoryView(s, e)
            n == Len(r.daily_data)
        IN  /\ n = 2
            /\ r.daily_data[1].date > r.daily_data[2].date + 1
            /\ r.daily_data[2].opening_balance # 0
            /\ r.daily_data[2].net_change # 0
            /\ r.daily_data[1].net_change # 0

\* The rollup closes on the net up to end for every window with start <= end.
RollupClosesOnNetUpToEnd ==
    \A s \in QueryDates, e \in QueryDates :
        LET r == DailyBalanceHistoryView(s, e)
        IN  r.start_date <= r.end_date
            => r.current_balance = NetOf(RowsUpTo(r.end_date))

(***************************************************************************)
(* C10.  A mark-as-paid request on a PENDING bill creates exactly one new  *)
(* transaction, of type BILL_PAYMENT with the bill's amount and fee (hence *)
(* cash_in = amount + fee, cash_out = 0), sets the bill's status to PAID,  *)
(* links the bill to that transaction and sets paid_at.                    *)
(***************************************************************************)
C10_MarkAsPaidCreatesOneTransaction ==
    (last.op = "mark_as_paid" /\ last.status = "PENDING")
    => /\ last.created = 1
       /\ LET bill == bills[last.pk]
          IN  /\ bill.status = "PAID"
              /\ bill.paid_at # None
              /\ bill.transaction \in DOMAIN txns
              /\ LET txn == txns[bill.transaction]
                 IN  /\ txn.transaction_type = "BILL_PAYMENT"
                     /\ txn.amount = bill.amount
                     /\ txn.fee = FeeOrZero(bill.fee)
                     /\ txn.cash_in = bill.amount + FeeOrZero(bill.fee)
                     /\ txn.cash_out = 0

(***************************************************************************)
(* C11.  Mark-as-paid is idempotent: a mark-as-paid request that finds the *)
(* bill PAID creates no transaction, leaves the bill (status, linked       *)
(* transaction, paid_at) and every other row unchanged, and is answered    *)
(* 'already paid', not with an error.                                      *)
(***************************************************************************)
C11_MarkAsPaidIdempotent ==
    [][ (last'.op = "mark_as_paid" /\ last'.status = "PAID")
        => /\ txns' = txns
           /\ bills' = bills
           /\ last'.outcome = "already_paid"
           /\ last'.errors = {}
           /\ last'.created = 0 ]_vars

\* A bill paid by a first request has been sent a second one.
C11_Witness ==
    /\ last.op = "mark_as_paid"
    /\ last.outcome = "already_paid"
    /\ bills[last.pk].status = "PAID"
    /\ bills[last.pk].paid_at # None
    /\ bills[last.pk].transaction \in DOMAIN txns

\* The BILL_PAYMENT transactions created on behalf of the bill pk: the bill
\* views write the bill's customer into the note of what they create.
PaymentsFor(pk) ==
    { i \in DOMAIN txns : /\ txns[i].transaction_type = "BILL_PAYMENT"
                          /\ txns[i].note = bills[pk].customer_id }

(***************************************************************************)
(* C12.  Over a bill's lifetime (bill create view, updates, mark-as-paid   *)
(* and bulk mark-as-paid) at most one BILL_PAYMENT transaction is created  *)
(* on its behalf, and exactly one once the bill is PAID.                   *)
(***************************************************************************)
C12_OneTransactionPerBill ==
    \A pk \in DOMAIN bills :
        /\ Cardinality(PaymentsFor(pk)) <= 1
        /\ bills[pk].status = "PAID" => Cardinality(PaymentsFor(pk)) = 1

(***************************************************************************)
(* C13.  A bill has a linked transaction only if its status is PAID, and   *)
(* every BILL_PAYMENT transaction created by a bill operation is the       *)
(* linked transaction of exactly one bill.                                 *)
(***************************************************************************)
C13_TransactionOnlyWhenPaid ==
    /\ \A pk \in DOMAIN bills :
          bills[pk].transaction # None => bills[pk].status = "PAID"
    /\ \A i \in DOMAIN txns :
          txns[i].transaction_type = "BILL_PAYMENT"
          => Cardinality({ pk \in DOMAIN bills : bills[pk].transaction = i }) = 1

\* The bills of a posted selection that are PENDING when the request arrives.
PendingOf(bill_ids) ==
    { pk \in bill_ids \cap DOMAIN bills : bills[pk].status = "PENDING" }

\* In this step the bill pk went from PENDING to PAID with a transaction of
\* its own that the step created: BILL_PAYMENT with the bill's amount and fee.
PaidInStep(pk) ==
    /\ bills[pk].status = "PENDING"
    /\ bills'[pk].status = "PAID"
    /\ bills'[pk].paid_at # None
    /\ bills'[pk].transaction \in (DOMAIN txns') \ (DOMAIN txns)
    /\ \A other \in DOMAIN bills' :
          other # pk => bills'[other].transaction # bills'[pk].transaction
    /\ LET txn == txns'[bills'[pk].transaction]
       IN  /\ txn.transaction_type = "BILL_PAYMENT"
           /\ txn.amount = bills[pk].amount
           /\ txn.fee = FeeOrZero(bills[pk].fee)

(***************************************************************************)
(* C14.  A bulk mark-as-paid request transitions exactly the bills of the  *)
(* posted set that are PENDING, creates exactly one BILL_PAYMENT           *)
(* transaction for each of them, reports their number as its count, and    *)
(* leaves every other bill, the PAID ones of the set included, untouched.  *)
(***************************************************************************)
C14_BulkTransitionsThePending ==
    [][ (last'.op = "bulk_mark_as_paid" /\ now' = now)
        => LET pending == PendingOf(last'.bill_ids)
           IN  /\ DOMAIN bills' = DOMAIN bills
               /\ \A pk \in pending : PaidInStep(pk)
               /\ \A pk \in (DOMAIN bills) \ pending : bills'[pk] = bills[pk]
               /\ Len(txns') = Len(txns) + Cardinality(pending)
               /\ \A i \in DOMAIN txns : txns'[i] = txns[i]
               /\ last'.count = Cardinality(pending) ]_vars

(***************************************************************************)
(* C15.  Bill requests are atomic: a create-bill or mark-as-paid request   *)
(* in which a write fails leaves the bill in its prior state (not created, *)
(* or still PENDING with its prior link) and persists no transaction.      *)
(***************************************************************************)
C15_FailedBillRequestWritesNothing ==
    [][ (last'.op \in {"bill_create", "mark_as_paid"} /\ last'.outcome = "error")
        => (txns' = txns /\ bills' = bills) ]_vars

\* A create-bill request whose transaction failed validation on the fee, and
\* a mark-as-paid request that failed the same way.
C15_Witness ==
    /\ last.op \in {"bill_create", "mark_as_paid"}
    /\ last.outcome = "error"
    /\ "fee" \in last.errors
    /\ last.fee > last.amount

(***************************************************************************)
(* C16.  Bulk mark-as-paid treats the bills of the selection               *)
(* independently: a PENDING bill whose own transaction can be created is   *)
(* PAID with its transaction committed, also when the creation for another *)
(* bill of the selection fails; and every bill is either PAID with its new *)
(* transaction or unchanged with no new transaction.                       *)
(***************************************************************************)
C16_BulkBillsIndependent ==
    [][ (last'.op = "bulk_mark_as_paid" /\ now' = now)
        => /\ DOMAIN bills' = DOMAIN bills
           /\ \A pk \in PendingOf(last'.bill_ids) :
                 bill_payment(bills[pk]).errors = {} => PaidInStep(pk)
           /\ \A pk \in DOMAIN bills :
                 \/ PaidInStep(pk)
                 \/ /\ bills'[pk] = bills[pk]
                    /\ \A i \in (DOMAIN txns') \ (DOMAIN txns) :
                          txns'[i].note # bills[pk].customer_id ]_vars

(***************************************************************************)
(* C17.  The stored status of a bill is only ever PENDING or PAID: no      *)
(* sequence of bill create, update, mark-as-paid and bulk mark-as-paid     *)
(* requests persists OVERDUE; a new bill starts PENDING, no bill is        *)
(* deleted, and the only change of a status is from PENDING to PAID.       *)
(***************************************************************************)
C17_StatusPendingOrPaid ==
    /\ [](\A pk \in DOMAIN bills : bills[pk].status \in {"PENDING", "PAID"})
    /\ [][ /\ \A pk \in DOMAIN bills :
                /\ pk \in DOMAIN bills'
                /\ bills'[pk].status # bills[pk].status
                   => (bills[pk].status = "PENDING" /\ bills'[pk].status = "PAID")
           /\ \A pk \in (DOMAIN bills') \ (DOMAIN bills) :
                bills'[pk].status = "PENDING" ]_vars

\* A paid bill went through the update form, next to a bill still pending.
C17_Witness ==
    /\ last.op = "bill_update"
    /\ last.outcome = "updated"
    /\ bills[last.pk].status = "PAID"
    /\ \E pk \in DOMAIN bills : bills[pk].status = "PENDING"

\* status == PENDING and due_date < today, today the shop's local date
OverdueToday(pk) ==
    bills[pk].status = "PENDING" /\ bills[pk].due_date < LocalDate(now)

(***************************************************************************)
(* C18.  A bill is reported overdue (Bill.is_overdue, the overdue count    *)
(* and the overdue list of the bill list view) exactly when its status is  *)
(* PENDING and its due_date is strictly before today, today being the      *)
(* shop's local current date, as for the dashboard, not the UTC date.      *)
(***************************************************************************)
C18_OverdueByLocalDate ==
    /\ \A pk \in DOMAIN bills : is_overdue(bills[pk]) <=> OverdueToday(pk)
    /\ overdue_bills = Cardinality({ pk \in DOMAIN bills : OverdueToday(pk) })
    /\ overdue_bills_list = { pk \in DOMAIN bills : OverdueToday(pk) }

\* The groups of the analytics page that hold the type ty.
GroupsOf(ty) ==
    { g \in DOMAIN transaction_types : ty \in transaction_types[g] }

(***************************************************************************)
(* C19.  The analytics type groups partition the transaction type          *)
(* enumeration: every type (OTHER, BANK_DEPOSIT, BANK_WITHDRAWAL and the   *)
(* legacy aliases included) is in exactly one group, so every transaction  *)
(* of a window is counted in exactly one group's totals.                   *)
(***************************************************************************)
C19_GroupsPartitionTypes ==
    /\ \A ty \in TRANSACTION_TYPE_CHOICES : Cardinality(GroupsOf(ty)) = 1
    /\ \A i \in DOMAIN txns : Cardinality(GroupsOf(txns[i].transaction_type)) = 1
    /\ \A period_name \in periods :
          period_totals(period_name).count
            = Cardinality(period_filter(period_name))

\* No two groups overlap, and the transactions of a type that has a group
\* are counted once: the part of C19 that the groups do satisfy.
GroupsDisjoint ==
    /\ \A ty \in TRANSACTION_TYPE_CHOICES : Cardinality(GroupsOf(ty)) <= 1
    /\ \A period_name \in periods :
          period_totals(period_name).count
            = Cardinality({ i \in period_filter(period_name) :
                              GroupsOf(txns[i].transaction_type) # {} })

\* The dates of the entries of a rollup, in the order emitted.
EmittedDates(r) == [ k \in DOMAIN r.daily_data |-> r.daily_data[k].date ]

(***************************************************************************)
(* C20.  A calendar day of the requested range [start, end] appears in the *)
(* emitted daily rollup if and only if it has at least one transaction or  *)
(* is today's local date; a day with transactions is emitted also when its *)
(* net change is zero.  Each such day is emitted once, and no other day.   *)
(***************************************************************************)
C20_DayEmittedIffActiveOrToday ==
    \A s \in QueryDates, e \in QueryDates :
        LET r == DailyBalanceHistoryView(s, e)
            dates == EmittedDates(r)
        IN  /\ \A d \in r.start_date .. r.end_date :
                  (\E k \in DOMAIN dates : dates[k] = d)
                  <=> (RowsOn(d) # {} \/ d = LocalDate(now))
            /\ \A k \in DOMAIN dates : dates[k] \in r.start_date .. r.end_date
            /\ \A j, k \in DOMAIN dates : j # k => dates[j] # dates[k]

\* The range holds a day with transactions whose net change is zero, which
\* is emitted, and an earlier day without transactions that is not today,
\* which is not.
C20_Witness ==
    \E s \in QueryDates, e \in QueryDates :
        LET r == DailyBalanceHistoryView(s, e)
            dates == EmittedDates(r)
        IN  /\ s # None /\ e # None
            /\ \E d \in s .. e :
                  /\ RowsOn(d) # {}
                  /\ NetOf(RowsOn(d)) = 0
                  /\ d # LocalDate(now)
                  /\ \E k \in DOMAIN dates : dates[k] = d
            /\ \E d \in s .. e :
                  /\ RowsOn(d) = {}
                  /\ d # LocalDate(now)
                  /\ \A k \in DOMAIN dates : dates[k] # d

\* The canonical type a legacy alias stands for.
Canonical(ty) ==
    CASE ty \in {"JAZZCASH_SEND", "EASYPAISA_SEND"} -> "MOBILE_WALLET_SEND"
      [] ty \in {"JAZZCASH_RECEIVE", "EASYPAISA_RECEIVE"} -> "MOBILE_WALLET_RECEIVE"
      [] ty = "CASH_CREDIT" -> "CREDIT"

LegacyAliases ==
    { "JAZZCASH_SEND", "EASYPAISA_SEND", "JAZZCASH_RECEIVE", "EASYPAISA_RECEIVE",
      "CASH_CREDIT" }

\* The row that the last admin request wrote.
SavedRow == txns[IF last.op = "admin_add" THEN Len(txns) ELSE last.pk]

(***************************************************************************)
(* C21.  Legacy aliases collapse onto their canonical types: a save of a   *)
(* legacy type with some (amount, fee) is accepted exactly when the save   *)
(* of its canonical type with that (amount, fee) is, and rejected          *)
(* otherwise, and an accepted one persists the same (cash_in, cash_out).   *)
(***************************************************************************)
C21_AliasesAsCanonical ==
    (last.op \in SaveOps /\ last.transaction_type \in LegacyAliases)
    => LET c == save(NewTransaction(Canonical(last.transaction_type),
                                    last.amount, last.fee))
       IN  /\ (last.errors = {}) <=> (c.errors = {})
           /\ last.errors = {}
              => /\ SavedRow.transaction_type = last.transaction_type
                 /\ SavedRow.cash_in = c.row.cash_in
                 /\ SavedRow.cash_out = c.row.cash_out

\* The aliases are classified as their canonical types: the part of C21
\* that the code satisfies.
AliasesClassifiedAsCanonical ==
    (last.op \in SaveOps /\ last.transaction_type \in LegacyAliases
       /\ last.errors = {})
    => LET c == derive(NewTransaction(Canonical(last.transaction_type),
                                      last.amount, last.fee))
       IN  /\ SavedRow.cash_in = c.cash_in
           /\ SavedRow.cash_out = c.cash_out

(***************************************************************************)
(* C22.  The analytics net cash matches the dashboard: the all_time grand  *)
(* total of cash over the type groups equals the dashboard's               *)
(* total_cash_in_hand, the all_time grand-total profit is the sum of the   *)
(* fees of all transactions and the grand-total count their number.        *)
(***************************************************************************)
C22_AnalyticsMatchesDashboard ==
    LET all_time == period_totals("all_time")
    IN  /\ all_time.cash = total_cash_in_hand
        /\ all_time.profit = SumField(DOMAIN txns, "fee")
        /\ all_time.count = Len(txns)

\* The grand totals are those of the transactions whose type has a group.
GroupedRows == { i \in DOMAIN txns : GroupsOf(txns[i].transaction_type) # {} }

AnalyticsTotalsOfGroupedRows ==
    LET all_time == period_totals("all_time")
    IN  /\ all_time.cash = NetOf(GroupedRows)
        /\ all_time.profit = SumField(GroupedRows, "fee")
        /\ all_time.count = Cardinality(GroupedRows)

\* The last request posted a case the form has a tip for, with an amount
\* that is valid: a wallet send without fee, or a bank operation with one.
TipCase ==
    /\ last.amount >= MinAmount
    /\ \/ /\ last.transaction_type = "MOBILE_WALLET_SEND"
          /\ FeeOrZero(last.fee) = 0
       \/ /\ last.transaction_type \in {"BANK_DEPOSIT", "BANK_WITHDRAWAL"}
          /\ FeeOrZero(last.fee) > 0

(***************************************************************************)
(* C23.  The transaction form's tips are non-blocking: a                   *)
(* MOBILE_WALLET_SEND with fee 0 or absent, or a bank operation with       *)
(* fee > 0, submitted through TransactionForm with an otherwise valid      *)
(* amount, is still recorded, with at most a tip shown on the fee field.   *)
(***************************************************************************)
C23_TipsDoNotBlock ==
    (last.op = "create_view" /\ TipCase)
    => /\ last.errors \subseteq {"fee"}
       /\ Len(txns) >= 1
       /\ txns[Len(txns)].transaction_type = last.transaction_type
       /\ txns[Len(txns)].amount = last.amount
       /\ txns[Len(txns)].fee = FeeOrZero(last.fee)

\* The workers whose request moved the bill pk to PAID.
PaidBy(pk) ==
    { w \in Workers : requests[w].pc = "done" /\ pk \in requests[w].paid }

(***************************************************************************)
(* C24.  Under any interleaving of two concurrent mark-as-paid requests    *)
(* (single or bulk) on the same PENDING bill, at most one of them commits  *)
(* a BILL_PAYMENT transaction for the bill, and the other observes the     *)
(* bill as already paid: it commits nothing for that bill.                 *)
(***************************************************************************)
C24_ConcurrentMarkAsPaidOnce ==
    \A pk \in DOMAIN bills : Cardinality(PaidBy(pk)) <= 1

(***************************************************************************)
(* C25.  For every PAID bill the linked transaction has type BILL_PAYMENT, *)
(* the bill's amount and the bill's fee (0 when the bill has none), in     *)
(* every reachable state, bill updates through BillUpdateView included.    *)
(***************************************************************************)
C25_PaidBillMatchesTransaction ==
    \A pk \in DOMAIN bills :
        bills[pk].status = "PAID"
        => /\ bills[pk].transaction \in DOMAIN txns
           /\ LET txn == txns[bills[pk].transaction]
              IN  /\ txn.transaction_type = "BILL_PAYMENT"
                  /\ txn.amount = bills[pk].amount
                  /\ txn.fee = FeeOrZero(bills[pk].fee)

(***************************************************************************)
(* C26.  Every PENDING bill reachable through the bill create and update   *)
(* views can be paid: the BILL_PAYMENT transaction of a mark-as-paid       *)
(* request on it passes validation, and a mark-as-paid request that finds  *)
(* the bill PENDING ends with the bill PAID.                               *)
(***************************************************************************)
C26_PendingBillCanBePaid ==
    /\ \A pk \in DOMAIN bills :
          bills[pk].status = "PENDING" => bill_payment(bills[pk]).errors = {}
    /\ (last.op = "mark_as_paid" /\ last.status = "PENDING")
       => (last.outcome = "paid" /\ bills[last.pk].status = "PAID")

(***************************************************************************)
(* C27.  PAID is absorbing: once a bill is PAID, no bill create, bill      *)
(* update, mark-as-paid or bulk mark-as-paid request changes its status,   *)
(* its linked transaction or its paid_at.                                  *)
(***************************************************************************)
C27_PaidIsAbsorbing ==
    [][ \A pk \in DOMAIN bills :
          bills[pk].status = "PAID"
          => /\ pk \in DOMAIN bills'
             /\ bills'[pk].status = "PAID"
             /\ bills'[pk].transaction = bills[pk].transaction
             /\ bills'[pk].paid_at = bills[pk].paid_at ]_vars

\* A paid bill was edited through the update form after the clock moved on,
\* and was then part of a bulk selection; it still carries its payment.
C27_Witness ==
    /\ last.op = "bulk_mark_as_paid"
    /\ \E pk \in last.bill_ids \cap DOMAIN bills :
          /\ bills[pk].status = "PAID"
          /\ bills[pk].paid_at < now
          /\ bills[pk].amount # txns[bills[pk].transaction].amount

C29_SettingsSingleton ==
    /\ [](/\ DOMAIN shop \subseteq {1}
          /\ \A k \in DOMAIN shop : shop[k].pk = k
          /\ last.op = "get_settings"
             => /\ 1 \in DOMAIN shop
                /\ last.obj = shop[1]
                /\ last.created
                   => /\ last.obj.print_bw_cost = DefaultPrintCost
                      /\ last.obj.print_color_cost = DefaultPrintCost)
    /\ [][ (last'.op = "get_settings" /\ now' = now)
           => /\ last'.created <=> (DOMAIN shop = {})
              /\ DOMAIN shop # {} => shop' = shop ]_vars

\* A new instance (no key yet) was saved at a later time than the start and
\* its costs are those of the one row, of key 1.
C29_Witness ==
    /\ last.op = "shop_save"
    /\ last.pk = None
    /\ last.print_bw_cost = 300
    /\ DOMAIN shop = {1}
    /\ shop[1].print_bw_cost = 300
    /\ shop[1].updated_at > 0

====
